---- MODULE Spec2Model ----
(***************************************************************************)
(* Model of .github/scripts/calculate_points.py: the one-shot command that *)
(* parses two JSON payloads (contributors, weights), scores every          *)
(* contribution record in four categories and prints the per-login totals. *)
(*                                                                         *)
(* A JSON payload is [valid |-> FALSE] (text json.loads rejects) or        *)
(* [valid |-> TRUE, value |-> v].  A contribution record is                *)
(* [author |-> A, counters |-> f]: f maps the counter keys present in the  *)
(* record to integers, and A tells what the record holds under "author".   *)
(* A Python dict that is printed (total_points) is a sequence of           *)
(* [key, val] entries in insertion order, the order json.dumps keeps.      *)
(***************************************************************************)
EXTENDS Integers, Sequences, FiniteSets, TLC

VARIABLES argv, run, pc, contributors, weights, calc_weights, i, username,
          category_points, user_points, total_points, points, exc,
          stdout, stderr, exit_code, history

vars == <<argv, run, pc, contributors, weights, calc_weights, i, username,
          category_points, user_points, total_points, points, exc,
          stdout, stderr, exit_code, history>>

\* Longest record list of an invocation, and number of invocations observed.
MaxRecords == 3
MaxRuns == 2

-----------------------------------------------------------------------------
(* JSON values *)

None == [tag |-> "null"]

\* What a record holds under "author".
AuthorMissing == [tag |-> "missing"]
AuthorNull == [tag |-> "null"]
AuthorObject(login) == [tag |-> "object", login |-> login]

\* What an author object holds under "login".
LoginMissing == [tag |-> "missing"]
LoginNull == [tag |-> "null"]
LoginStr(s) == [tag |-> "str", s |-> s]

Record(author, counters) == [author |-> author, counters |-> counters]

InvalidJSON == [valid |-> FALSE]
JSON(v) == [valid |-> TRUE, value |-> v]

\* dict.get(key, default) on the counters of a record.
Get(d, k, default) == IF k \in DOMAIN d THEN d[k] ELSE default

\* Outcome of a call: a returned value or a raised exception.
Return(v) == [exc |-> "none", val |-> v]
Raise(e) == [exc |-> e, val |-> 0]

-----------------------------------------------------------------------------
(* ContributionCalculator *)

\* self.contribution_types, in its iteration order.
contribution_types == <<"code", "review", "documentation", "community">>

_calculate_code_points_sum_of_floors(contribution, w) ==
  IF "code" \notin DOMAIN w THEN Raise("KeyError")
  ELSE LET additions == Get(contribution.counters, "a", 0)
           deletions == Get(contribution.counters, "d", 0)
           commits == Get(contribution.counters, "c", 0)
       IN Return(((additions \div 100) + (deletions \div 100)) * w["code"]
                 + commits * (w["code"] \div 2))

_calculate_code_points(contribution, w) ==
  IF "code" \notin DOMAIN w THEN Raise("KeyError")
  ELSE LET additions == Get(contribution.counters, "a", 0)
           deletions == Get(contribution.counters, "d", 0)
           commits == Get(contribution.counters, "c", 0)
       IN Return(((additions + deletions) \div 100) * w["code"]
                 + commits * (w["code"] \div 2))

_calculate_review_points_full_comments(contribution, w) ==
  IF "review" \notin DOMAIN w THEN Raise("KeyError")
  ELSE LET reviews == Get(contribution.counters, "reviews", 0)
           comments == Get(contribution.counters, "review_comments", 0)
       IN Return(reviews * w["review"] + comments * w["review"])

_calculate_review_points(contribution, w) ==
  IF "review" \notin DOMAIN w THEN Raise("KeyError")
  ELSE LET reviews == Get(contribution.counters, "reviews", 0)
           comments == Get(contribution.counters, "review_comments", 0)
       IN Return(reviews * w["review"] + comments * (w["review"] \div 2))

_calculate_documentation_points(contribution, w) ==
  IF "documentation" \notin DOMAIN w THEN Raise("KeyError")
  ELSE LET doc_changes == Get(contribution.counters, "doc_changes", 0)
           doc_reviews == Get(contribution.counters, "doc_reviews", 0)
       IN Return(doc_changes * w["documentation"]
                 + doc_reviews * (w["documentation"] \div 2))

_calculate_community_points_default_weight(contribution, w) ==
  LET issues == Get(contribution.counters, "issues", 0)
      discussions == Get(contribution.counters, "discussions", 0)
      help_comments == Get(contribution.counters, "help_comments", 0)
      wc == Get(w, "community", 0)
  IN Return(issues * wc + discussions * wc + help_comments * (wc \div 2))

_calculate_community_points(contribution, w) ==
  IF "community" \notin DOMAIN w THEN Raise("KeyError")
  ELSE LET issues == Get(contribution.counters, "issues", 0)
           discussions == Get(contribution.counters, "discussions", 0)
           help_comments == Get(contribution.counters, "help_comments", 0)
       IN Return(issues * w["community"] + discussions * w["community"]
                 + help_comments * (w["community"] \div 2))

\* calculator(contribution) for the calculator registered under contrib_type.
calculator(contrib_type, contribution, w) ==
  CASE contrib_type = "code" -> _calculate_code_points(contribution, w)
    [] contrib_type = "review" -> _calculate_review_points(contribution, w)
    [] contrib_type = "documentation" ->
         _calculate_documentation_points(contribution, w)
    [] contrib_type = "community" ->
         _calculate_community_points(contribution, w)

\* contribution.get('author', {}).get('login'): the login, None when the
\* author or its login is missing, AttributeError when the author is null
\* (None has no .get).
get_username(contribution) ==
  LET author == contribution.author
  IN CASE author.tag = "missing" -> Return(None)
       [] author.tag = "null" -> Raise("AttributeError")
       [] author.tag = "object" ->
            IF author.login.tag = "str" THEN Return(author.login)
            ELSE Return(None)

\* Python truth value of a login: None and the empty string are falsy.
Truthy(login) == login.tag = "str" /\ login.s /= ""

\* The inner loop of calculate_total_points over contribution_types: the
\* value of every calculator that returned, up to the first one that raised.
RECURSIVE sum_categories(_, _, _, _, _)
sum_categories(k, contribution, w, acc, cats) ==
  IF k > Len(contribution_types) THEN [exc |-> "none", val |-> acc, cats |-> cats]
  ELSE LET t == contribution_types[k]
           r == calculator(t, contribution, w)
       IN IF r.exc /= "none" THEN [exc |-> r.exc, val |-> acc, cats |-> cats]
          ELSE sum_categories(k + 1, contribution, w, acc + r.val,
                              [cats EXCEPT ![t] = r.val])

NoCategoryPoints == [t \in {"code", "review", "documentation", "community"} |-> 0]

\* dict.get(key, 0) and dict[key] = v on an insertion-ordered dict.
HasKey(d, k) == \E j \in 1..Len(d) : d[j].key = k
DictGet(d, k, default) ==
  IF HasKey(d, k) THEN d[CHOOSE j \in 1..Len(d) : d[j].key = k].val ELSE default
DictSet(d, k, v) ==
  IF HasKey(d, k)
  THEN [j \in 1..Len(d) |-> IF d[j].key = k THEN [key |-> k, val |-> v] ELSE d[j]]
  ELSE Append(d, [key |-> k, val |-> v])

-----------------------------------------------------------------------------
(* Inputs *)

CodeCounters == [a |-> 250, d |-> 70, c |-> 3]
ReviewCounters == [reviews |-> 2, review_comments |-> 4]
CommunityCounters ==
  [issues |-> 1, discussions |-> 2, help_comments |-> 5, doc_changes |-> 1]

Alice == AuthorObject(LoginStr("alice"))
Bob == AuthorObject(LoginStr("bob"))

\* Records of the invocations whose aggregation is explored.
Records ==
  { Record(Alice, CodeCounters), Record(Alice, ReviewCounters),
    Record(Bob, CommunityCounters),
    Record(AuthorMissing, ReviewCounters), Record(AuthorNull, ReviewCounters),
    Record(AuthorObject(LoginMissing), ReviewCounters),
    Record(AuthorObject(LoginNull), ReviewCounters),
    Record(AuthorObject(LoginStr("")), ReviewCounters) }

\* Records of the invocations that are repeated on a reordered list.
PermRecords ==
  { Record(Alice, CodeCounters), Record(Alice, ReviewCounters),
    Record(Bob, CommunityCounters), Record(AuthorNull, ReviewCounters) }

\* Every record that holds some of the listed keys, each with its value.
CountersOver(f) == UNION { {[k \in K |-> f[k]]} : K \in SUBSET DOMAIN f }
Merge(f, g) == [k \in DOMAIN f \cup DOMAIN g |-> IF k \in DOMAIN f THEN f[k] ELSE g[k]]

CodeKeys ==
  [a |-> 250, d |-> 70, c |-> 3, additions |-> 120, deletions |-> 90, commits |-> 7]
OtherKeys ==
  [reviews |-> 2, review_comments |-> 4, doc_changes |-> 1, doc_reviews |-> 3,
   issues |-> 1, discussions |-> 2, help_comments |-> 5]

\* Single records whose points are explored: any subset of the code keys, and
\* any subset of the other categories' keys with or without code counters.
PointRecords ==
  { Record(Alice, f) : f \in CountersOver(CodeKeys) }
  \cup { Record(Alice, Merge(f, g)) :
           f \in CountersOver(OtherKeys), g \in {<<>>, CodeCounters} }
  \cup { Record(AuthorNull, <<>>) }

CompleteWeights == [code |-> 10, review |-> 6, documentation |-> 4, community |-> 2]
OddWeights == [code |-> 7, review |-> 5, documentation |-> 3, community |-> 9]
SignedWeights == [code |-> -3, review |-> 1, documentation |-> 0, community |-> -5]
NoCommunityWeights == [code |-> 10, review |-> 6, documentation |-> 4]
NoCodeWeights == [review |-> 6, documentation |-> 4, community |-> 2]
NoWeights == <<>>

WeightTables == {CompleteWeights, OddWeights, NoCommunityWeights, NoCodeWeights, NoWeights}
PointWeightTables == {CompleteWeights, OddWeights, SignedWeights, NoCommunityWeights}
PermWeightTables == {CompleteWeights, OddWeights, NoCommunityWeights}

SeqsUpTo(S, n) == UNION { [1..k -> S] : k \in 0..n }

Payloads(S) == {InvalidJSON} \cup { JSON(v) : v \in S }

\* The list s in the order given by the permutation p of its indices.
Permute(s, p) == [j \in 1..Len(s) |-> s[p[j]]]

-----------------------------------------------------------------------------
(* Initial states: the command line of every invocation is fixed, nothing   *)
(* has run yet.                                                             *)

NotStarted ==
  /\ run = 1
  /\ pc = "start"
  /\ contributors = <<>>
  /\ weights = <<>>
  /\ calc_weights = <<>>
  /\ i = 0
  /\ username = None
  /\ category_points = NoCategoryPoints
  /\ user_points = 0
  /\ total_points = <<>>
  /\ points = <<>>
  /\ exc = "none"
  /\ stdout = <<>>
  /\ stderr = <<>>
  /\ exit_code = -1
  /\ history = <<>>

\* Every invocation gets the same two payloads.
Init ==
  /\ \E c \in Payloads(SeqsUpTo(Records, MaxRecords)), w \in Payloads(WeightTables) :
       argv = [r \in 1..MaxRuns |-> [contributors |-> c, weights |-> w]]
  /\ NotStarted

\* Invocations after the first get the record list in a permuted order.
InitPerm ==
  /\ \E c \in Payloads(SeqsUpTo(PermRecords, MaxRecords)),
        w \in Payloads(PermWeightTables) :
       IF c.valid
       THEN \E p \in Permutations(1..Len(c.value)) :
              argv = [r \in 1..MaxRuns |->
                        [contributors |->
                           IF r = 1 THEN c ELSE JSON(Permute(c.value, p)),
                         weights |-> w]]
       ELSE argv = [r \in 1..MaxRuns |-> [contributors |-> c, weights |-> w]]
  /\ NotStarted

\* Every invocation gets the same list of one record.
InitPoints ==
  /\ \E c \in Payloads({ <<r>> : r \in PointRecords }),
        w \in Payloads(PointWeightTables) :
       argv = [r \in 1..MaxRuns |-> [contributors |-> c, weights |-> w]]
  /\ NotStarted

-----------------------------------------------------------------------------
(* main *)

\* contributors = json.loads(args.contributors)
LoadContributors ==
  /\ pc = "start"
  /\ IF argv[run].contributors.valid
     THEN /\ contributors' = argv[run].contributors.value
          /\ pc' = "load_weights"
          /\ exc' = exc
     ELSE /\ exc' = "JSONDecodeError"
          /\ pc' = "except"
          /\ contributors' = contributors
  /\ UNCHANGED <<argv, run, weights, calc_weights, i, username, category_points,
                 user_points, total_points, points, stdout, stderr, exit_code,
                 history>>

LoadWeights_default_on_error ==
  /\ pc = "load_weights"
  /\ weights' = IF argv[run].weights.valid THEN argv[run].weights.value ELSE <<>>
  /\ pc' = "construct"
  /\ UNCHANGED <<argv, run, contributors, calc_weights, i, username,
                 category_points, user_points, total_points, points, exc,
                 stdout, stderr, exit_code, history>>

\* weights = json.loads(args.weights)
LoadWeights ==
  /\ pc = "load_weights"
  /\ IF argv[run].weights.valid
     THEN /\ weights' = argv[run].weights.value
          /\ pc' = "construct"
          /\ exc' = exc
     ELSE /\ exc' = "JSONDecodeError"
          /\ pc' = "except"
          /\ weights' = weights
  /\ UNCHANGED <<argv, run, contributors, calc_weights, i, username,
                 category_points, user_points, total_points, points, stdout,
                 stderr, exit_code, history>>

\* except json.JSONDecodeError: print(..., file=sys.stderr); sys.exit(1)
HandleJSONDecodeError ==
  /\ pc = "except"
  /\ stderr' = Append(stderr, "Error decoding JSON")
  /\ exit_code' = 1
  /\ pc' = "exited"
  /\ UNCHANGED <<argv, run, contributors, weights, calc_weights, i, username,
                 category_points, user_points, total_points, points, exc,
                 stdout, history>>

ContributionCalculatorInit_eager_lookup ==
  /\ pc = "construct"
  /\ calc_weights' = weights
  /\ IF \A t \in DOMAIN NoCategoryPoints : t \in DOMAIN weights
     THEN pc' = "call" /\ exc' = exc
     ELSE pc' = "raised" /\ exc' = "KeyError"
  /\ UNCHANGED <<argv, run, contributors, weights, i, username, category_points,
                 user_points, total_points, points, stdout, stderr, exit_code,
                 history>>

\* calculator = ContributionCalculator(weights): the table is stored, not read.
ContributionCalculatorInit ==
  /\ pc = "construct"
  /\ calc_weights' = weights
  /\ pc' = "call"
  /\ UNCHANGED <<argv, run, contributors, weights, i, username, category_points,
                 user_points, total_points, points, exc, stdout, stderr,
                 exit_code, history>>

BeginCalculateTotalPoints_keep_totals ==
  /\ pc = "call"
  /\ i' = 1
  /\ pc' = "loop"
  /\ UNCHANGED <<argv, run, contributors, weights, calc_weights, username,
                 category_points, user_points, total_points, points, exc,
                 stdout, stderr, exit_code, history>>

\* calculator.calculate_total_points(contributors) is entered: total_points = {}
\* and the loop stands before the first record.
BeginCalculateTotalPoints ==
  /\ pc = "call"
  /\ total_points' = <<>>
  /\ i' = 1
  /\ pc' = "loop"
  /\ UNCHANGED <<argv, run, contributors, weights, calc_weights, username,
                 category_points, user_points, points, exc, stdout, stderr,
                 exit_code, history>>

Accumulate_overwrite(d, login, pts) == DictSet(d, login, pts)

\* total_points[username] = total_points.get(username, 0) + user_points
Accumulate(d, login, pts) == DictSet(d, login, DictGet(d, login, 0) + pts)

\* One iteration of "for contribution in contributions".
ProcessContribution ==
  /\ pc = "loop"
  /\ i <= Len(contributors)
  /\ LET contribution == contributors[i]
         u == get_username(contribution)
         s == sum_categories(1, contribution, calc_weights, 0, NoCategoryPoints)
     IN IF u.exc /= "none"
        THEN /\ exc' = u.exc
             /\ pc' = "raised"
             /\ UNCHANGED <<i, username, category_points, user_points, total_points>>
        ELSE IF ~Truthy(u.val)
        THEN /\ username' = u.val
             /\ i' = i + 1
             /\ UNCHANGED <<pc, exc, category_points, user_points, total_points>>
        ELSE IF s.exc /= "none"
        THEN /\ username' = u.val
             /\ user_points' = s.val
             /\ category_points' = s.cats
             /\ exc' = s.exc
             /\ pc' = "raised"
             /\ UNCHANGED <<i, total_points>>
        ELSE /\ username' = u.val
             /\ user_points' = s.val
             /\ category_points' = s.cats
             /\ total_points' = Accumulate(total_points, u.val.s, s.val)
             /\ i' = i + 1
             /\ UNCHANGED <<pc, exc>>
  /\ UNCHANGED <<argv, run, contributors, weights, calc_weights, points, stdout,
                 stderr, exit_code, history>>

\* return total_points, assigned to points in main.
ReturnTotalPoints ==
  /\ pc = "loop"
  /\ i > Len(contributors)
  /\ points' = total_points
  /\ pc' = "print"
  /\ UNCHANGED <<argv, run, contributors, weights, calc_weights, i, username,
                 category_points, user_points, total_points, exc, stdout,
                 stderr, exit_code, history>>

\* print(json.dumps({"points": points})), then main returns: exit status 0.
PrintPoints ==
  /\ pc = "print"
  /\ stdout' = Append(stdout, [points |-> points])
  /\ exit_code' = 0
  /\ pc' = "exited"
  /\ UNCHANGED <<argv, run, contributors, weights, calc_weights, i, username,
                 category_points, user_points, total_points, points, exc,
                 stderr, history>>

UncaughtException_dump_partial ==
  /\ pc = "raised"
  /\ stdout' = Append(stdout, [points |-> total_points])
  /\ stderr' = Append(stderr, exc)
  /\ exit_code' = 1
  /\ pc' = "exited"
  /\ UNCHANGED <<argv, run, contributors, weights, calc_weights, i, username,
                 category_points, user_points, total_points, points, exc,
                 history>>

\* Nothing in main catches KeyError or AttributeError: the exception leaves
\* main(), the interpreter writes the traceback to stderr and exits with 1.
UncaughtException ==
  /\ pc = "raised"
  /\ stderr' = Append(stderr, exc)
  /\ exit_code' = 1
  /\ pc' = "exited"
  /\ UNCHANGED <<argv, run, contributors, weights, calc_weights, i, username,
                 category_points, user_points, total_points, points, exc,
                 stdout, history>>

\* What an invocation leaves behind for its caller.
Outcome == [stdout |-> stdout, stderr |-> stderr, exit_code |-> exit_code]

\* The command is invoked again: a new process with empty streams.  The
\* model's locals keep their old values until the code assigns them, so a
\* value that the code failed to initialise would be seen by the new run.
StartNextRun ==
  /\ pc = "exited"
  /\ run < MaxRuns
  /\ history' = Append(history, Outcome)
  /\ run' = run + 1
  /\ pc' = "start"
  /\ exc' = "none"
  /\ stdout' = <<>>
  /\ stderr' = <<>>
  /\ exit_code' = -1
  /\ UNCHANGED <<argv, contributors, weights, calc_weights, i, username,
                 category_points, user_points, total_points, points>>

Next ==
  \/ LoadContributors
  \/ LoadWeights
  \/ HandleJSONDecodeError
  \/ ContributionCalculatorInit
  \/ BeginCalculateTotalPoints
  \/ ProcessContribution
  \/ ReturnTotalPoints
  \/ PrintPoints
  \/ UncaughtException
  \/ StartNextRun

Spec == Init /\ [][Next]_vars
SpecPerm == InitPerm /\ [][Next]_vars
SpecPoints == InitPoints /\ [][Next]_vars

-----------------------------------------------------------------------------
(* Vocabulary of the properties *)

Args == argv[run]
BothValid == Args.contributors.valid /\ Args.weights.valid
InputRecords == Args.contributors.value
InputWeights == Args.weights.value
Exited == pc = "exited"

AllCategories == {"code", "review", "documentation", "community"}
Complete(w) == AllCategories \subseteq DOMAIN w

\* The value of a counter of a record, 0 when the record does not hold it.
Counter(rec, k) == IF k \in DOMAIN rec.counters THEN rec.counters[k] ELSE 0

\* The documented formulas; \div is the floor division.
CodeFormula(rec, W, additions, deletions, commits) ==
  ((Counter(rec, additions) + Counter(rec, deletions)) \div 100) * W
  + Counter(rec, commits) * (W \div 2)
ReviewFormula(rec, W) ==
  Counter(rec, "reviews") * W + Counter(rec, "review_comments") * (W \div 2)
DocumentationFormula(rec, W) ==
  Counter(rec, "doc_changes") * W + Counter(rec, "doc_reviews") * (W \div 2)
CommunityFormula(rec, W) ==
  (Counter(rec, "issues") + Counter(rec, "discussions")) * W
  + Counter(rec, "help_comments") * (W \div 2)
RecordTotal(rec, w) ==
  CodeFormula(rec, w["code"], "a", "d", "c") + ReviewFormula(rec, w["review"])
  + DocumentationFormula(rec, w["documentation"])
  + CommunityFormula(rec, w["community"])

\* The record names a contributor: its author is an object whose login is a
\* non-empty string.
CarriesLogin(rec) ==
  /\ rec.author.tag = "object"
  /\ rec.author.login.tag = "str"
  /\ rec.author.login.s /= ""
LoginsOf(recs) ==
  { recs[j].author.login.s : j \in { k \in 1..Len(recs) : CarriesLogin(recs[k]) } }

\* Sum of the record totals of the first n records that carry the login.
RECURSIVE SumFor(_, _, _, _)
SumFor(recs, login, w, n) ==
  IF n = 0 THEN 0
  ELSE SumFor(recs, login, w, n - 1)
       + (IF CarriesLogin(recs[n]) /\ recs[n].author.login.s = login
          THEN RecordTotal(recs[n], w) ELSE 0)

\* d maps exactly the logins of recs, each once, to the sum of its records.
IsTotalsOf(d, recs, w) ==
  /\ \A l \in LoginsOf(recs) :
       /\ Cardinality({ j \in 1..Len(d) : d[j].key = l }) = 1
       /\ \A j \in 1..Len(d) : d[j].key = l => d[j].val = SumFor(recs, l, w, Len(recs))
  /\ \A j \in 1..Len(d) : d[j].key \in LoginsOf(recs)

\* The last loop iteration scored a record: contributors[i - 1], under the
\* table calc_weights.
JustScored == pc \in {"loop", "print"} /\ i > 1 /\ Truthy(username)
Scored == contributors[i - 1]

AsSet(d) == { d[j] : j \in 1..Len(d) }
IsPermutationOf(s, t) ==
  /\ Len(s) = Len(t)
  /\ \E p \in Permutations(1..Len(s)) : t = Permute(s, p)

-----------------------------------------------------------------------------
(* Properties *)

\* C1: with a complete weight table, every list of records yields a result
\* whose keys are exactly the logins of the records, each once, mapped to the
\* sum of the totals of all records of that login.
C1_TotalsSummed ==
  (Exited /\ BothValid /\ Complete(InputWeights))
    => /\ exit_code = 0
       /\ Len(stdout) = 1
       /\ IsTotalsOf(stdout[1].points, InputRecords, InputWeights)

\* C2: records without an author login are skipped without error; the run
\* ends as it would on the list without them: the totals of the remaining
\* records, or the lookup error of an incomplete weight table.
C2_NoLoginSkipped ==
  (Exited /\ BothValid)
    => LET kept == SelectSeq(InputRecords, CarriesLogin)
       IN IF Complete(InputWeights) \/ kept = <<>>
          THEN /\ exit_code = 0
               /\ Len(stdout) = 1
               /\ IsTotalsOf(stdout[1].points, kept, InputWeights)
          ELSE exit_code /= 0 /\ exc = "KeyError" /\ stdout = <<>>

\* C3 as stated, on the lists that hold no record with a null author (whose
\* error is the subject of C2): an incomplete weight table and a non-empty
\* record list make the run fail with a lookup error, and no result is
\* printed.
C3_AnyRecordFails ==
  (Exited /\ BothValid /\ ~Complete(InputWeights) /\ Len(InputRecords) >= 1
     /\ \A j \in 1..Len(InputRecords) : InputRecords[j].author.tag /= "null")
    => exc = "KeyError" /\ exit_code /= 0 /\ stdout = <<>>

\* C3 amended: an incomplete weight table and a list with at least one record
\* that carries a login make the run fail without a result: with the lookup
\* error raised at the first such record, unless a record with a null author
\* stands before it and ends the run with its own error first.
C3_RecordWithLoginFails ==
  (Exited /\ BothValid /\ ~Complete(InputWeights)
     /\ \E j \in 1..Len(InputRecords) : CarriesLogin(InputRecords[j]))
    => LET first == CHOOSE j \in 1..Len(InputRecords) :
                      /\ CarriesLogin(InputRecords[j])
                      /\ \A k \in 1..(j - 1) : ~CarriesLogin(InputRecords[k])
       IN /\ exit_code /= 0
          /\ stdout = <<>>
          /\ IF \E k \in 1..(first - 1) : InputRecords[k].author.tag = "null"
             THEN exc = "AttributeError"
             ELSE exc = "KeyError"

\* A run that failed on the missing community weight although no record of
\* the list holds a community counter.
C3_Witness ==
  /\ Exited /\ BothValid /\ exc = "KeyError"
  /\ InputWeights = NoCommunityWeights
  /\ Len(InputRecords) >= 1
  /\ \A j \in 1..Len(InputRecords) :
       DOMAIN InputRecords[j].counters
         \cap {"issues", "discussions", "help_comments"} = {}

\* C4: when either payload is not valid JSON nothing is ever written to
\* standard output, the scoring is never entered, and the run ends with the
\* parse error on the error stream and a non-zero exit status.
C4_MalformedJSON ==
  (~Args.contributors.valid \/ ~Args.weights.valid)
    => /\ stdout = <<>>
       /\ pc \in {"start", "load_weights", "except", "exited"}
       /\ Exited => exit_code /= 0 /\ stderr = <<"Error decoding JSON">>

\* A finished run whose record list parsed and whose weights did not.
C4_Witness ==
  /\ Exited /\ Args.contributors.valid /\ ~Args.weights.valid
  /\ Len(InputRecords) >= 1

\* C5 as stated: the code points of a scored record follow the formula over
\* the counters named additions, deletions and commits.
C5_CodePointsLongNames ==
  JustScored
    => category_points["code"]
         = CodeFormula(Scored, calc_weights["code"],
                       "additions", "deletions", "commits")

\* C5 amended: the code points of a scored record follow the formula over
\* the counters the record holds under the keys a, d and c.
C5_CodePoints ==
  JustScored
    => category_points["code"]
         = CodeFormula(Scored, calc_weights["code"], "a", "d", "c")

\* A scored record that holds a, d, c and additions, under an odd weight.
C5_Witness ==
  /\ JustScored
  /\ calc_weights = OddWeights
  /\ {"a", "d", "c", "additions"} \subseteq DOMAIN Scored.counters

\* C6: the total of a scored record is the sum of its four category values,
\* review, documentation and community follow their formulas, and a category
\* none of whose counters is present contributes 0.
C6_RecordTotal ==
  JustScored
    => /\ category_points["review"] = ReviewFormula(Scored, calc_weights["review"])
       /\ category_points["documentation"]
            = DocumentationFormula(Scored, calc_weights["documentation"])
       /\ category_points["community"]
            = CommunityFormula(Scored, calc_weights["community"])
       /\ user_points = category_points["code"] + category_points["review"]
                        + category_points["documentation"]
                        + category_points["community"]
       /\ DOMAIN Scored.counters \cap {"a", "d", "c"} = {}
            => category_points["code"] = 0
       /\ DOMAIN Scored.counters \cap {"reviews", "review_comments"} = {}
            => category_points["review"] = 0
       /\ DOMAIN Scored.counters \cap {"doc_changes", "doc_reviews"} = {}
            => category_points["documentation"] = 0
       /\ DOMAIN Scored.counters \cap {"issues", "discussions", "help_comments"} = {}
            => category_points["community"] = 0

\* A scored record with review counters and documentation counters and no
\* community counter, under odd weights.
C6_Witness ==
  /\ JustScored
  /\ calc_weights = OddWeights
  /\ {"reviews", "review_comments", "doc_reviews"} \subseteq DOMAIN Scored.counters
  /\ DOMAIN Scored.counters \cap {"issues", "discussions", "help_comments"} = {}
  /\ user_points > 0

\* C7: on the empty record list every weight table, complete or not, gives
\* the empty mapping without error.
C7_EmptyList ==
  (Exited /\ BothValid /\ InputRecords = <<>>)
    => exit_code = 0 /\ stdout = <<[points |-> <<>>]>> /\ stderr = <<>>

\* A finished run on the empty list under the table without any weight.
C7_Witness ==
  Exited /\ BothValid /\ InputRecords = <<>> /\ InputWeights = NoWeights

\* C8: a finished run leaves the same outcome (output with its key order,
\* error stream, exit status) as every earlier run on identical inputs.
C8_Deterministic ==
  Exited
    => \A k \in 1..Len(history) : argv[k] = Args => history[k] = Outcome

\* A repeated run that printed the totals of two contributors.
C8_Witness ==
  /\ Exited /\ run > 1 /\ argv[1] = Args
  /\ Len(stdout) = 1
  /\ Len(stdout[1].points) = 2
  /\ \A j \in 1..2 : stdout[1].points[j].val > 0

C9_State ==
  /\ Len(stdout) <= 1
  /\ stdout /= <<>>
       => /\ Exited /\ exit_code = 0 /\ exc = "none"
          /\ BothValid
          /\ contributors = InputRecords
          /\ i = Len(InputRecords) + 1
  /\ exc /= "none" => stdout = <<>>
C9_Step ==
  /\ pc \in {"raised", "except"} => pc' = "exited" /\ stdout' = <<>> /\ exit_code' /= 0
  /\ pc = "loop" => i' >= i /\ (pc' = "loop" => i' = i + 1)

\* C9: standard output gets at most one line, and only once both payloads
\* parsed and every record was processed without error; after an error
\* nothing is printed, the run just ends, and the loop never steps back to a
\* record.
C9_AllOrNothing == [](C9_State) /\ [][C9_Step]_vars

\* A run that failed at a middle record after totals had been accumulated.
C9_Witness ==
  /\ Exited /\ exc /= "none"
  /\ total_points /= <<>>
  /\ 1 < i /\ i < Len(contributors)
  /\ stdout = <<>>

\* C10: under a complete weight table a run on a permutation of the first
\* run's record list ends like the first run, with the same logins and totals.
C10_OrderIndependent ==
  (Exited /\ run > 1 /\ BothValid /\ Complete(InputWeights)
     /\ argv[1].contributors.valid /\ argv[1].weights = Args.weights
     /\ IsPermutationOf(argv[1].contributors.value, InputRecords))
    => /\ history[1].exit_code = exit_code
       /\ history[1].stderr = stderr
       /\ Len(history[1].stdout) = Len(stdout)
       /\ Len(stdout) = 1
            => /\ Len(history[1].stdout[1].points) = Len(stdout[1].points)
               /\ AsSet(history[1].stdout[1].points) = AsSet(stdout[1].points)

\* A run on a reordered list of three records, two of one login, that printed
\* the keys in another order than the first run.
C10_Witness ==
  /\ Exited /\ run > 1 /\ BothValid /\ Complete(InputWeights)
  /\ Len(InputRecords) = 3
  /\ Len(stdout) = 1
  /\ Len(stdout[1].points) = 2
  /\ history[1].stdout /= stdout

====
